---------------------------- MODULE Spec2Model ----------------------------
(***************************************************************************)
(* Unit-of-work coordinator (package uow): UoW.Run drives a Runner through *)
(* Ctx -> fn -> Commit | Rollback.  Two Runners are provided: MockTx (one  *)
(* shared State guarded by a mutex) and MongoTx (driver sessions).         *)
(*                                                                         *)
(* Goroutines calling Run on one shared UoW are the processes of the model.*)
(* Go strings are sequences of tokens, Go errors are chains of layers      *)
(* (outermost first), nil is the empty chain.                              *)
(***************************************************************************)
EXTENDS Integers, Sequences, FiniteSets, TLC

\* ------------------------------------------------------------------ bounds
NProcs == 2      \* goroutines sharing the one UoW
MaxRuns == 2     \* Run calls made in all
MaxSets == 1     \* SetValue calls one fn makes before it returns

Procs == 1..NProcs

VARIABLES
    runner,      \* UoW.runner: which Runner New() was given
    value,       \* MockTx.state.value
    mu,          \* MockTx.state.mu: 0 = unlocked, else the goroutine holding it
    sessions,    \* MongoTx: the sessions client.StartSession() has handed out
    pc,          \* per goroutine: position inside Run
    runs,        \* Run calls made so far
    parentCtx,   \* Run's parameter ctx
    fnCtx,       \* fn's parameter ctx
    fnSets,      \* SetValue calls this fn has made
    wrote,       \* during a Run: whether its fn has written the State
    tx,          \* fn's local: the result of txs.Get(ctx)
    setArg,      \* argument of the SetValue call in progress
    uowCtx,      \* Run's local uowCtx
    err,         \* Run's local err
    rbErr,       \* Run's local rbErr
    ret,         \* Run's return value
    log,         \* per goroutine: Runner / fn calls and returns of the current Run
    dataBefore,  \* during a Run: the MockTx data observed when it started
    written,     \* during a Run: the string its fn wrote last
    alone        \* during a Run: whether no other Run has overlapped it so far

vars == <<runner, value, mu, sessions, pc, runs, parentCtx, fnCtx, fnSets, wrote,
          tx, setArg, uowCtx, err, rbErr, ret, log, dataBefore, written, alone>>

\* the locals of fn
fnVars == <<fnCtx, fnSets, tx, setArg>>

\* what is kept of a Run while it is in progress
runVars == <<wrote, dataBefore, written, alone>>

\* ------------------------------------------------------------------ errors
\* nil
Nil == << >>

\* errors.New(text): a fresh error value; id stands for its identity
NewError(id, text) == << [id |-> id, msg |-> <<text>>] >>

\* pkg/errors Wrap: nil stays nil, otherwise a new layer around the cause
Wrap(e, msg) == IF e = Nil THEN Nil ELSE << [id |-> "wrap", msg |-> msg] >> \o e

\* error.Error(): "msg: cause"
RECURSIVE ErrorString(_)
ErrorString(e) ==
    IF e = Nil THEN << >>
    ELSE IF Len(e) = 1 THEN e[1].msg
    ELSE e[1].msg \o <<": ">> \o ErrorString(Tail(e))

\* pkg/errors Wrapf(err, "operation failed and rollback also failed: rollback error: %v", rbErr)
Wrapf(e, format, arg) == Wrap(e, <<format>> \o ErrorString(arg))

\* errors.Is(e, target): some error of e's chain is target
Is(e, target) ==
    /\ target # Nil
    /\ \E i \in 1..Len(e) : SubSeq(e, i, Len(e)) = target

\* s occurs in t as a contiguous run of tokens
Contains(t, s) == \E i \in 0..(Len(t) - Len(s)) : SubSeq(t, i + 1, i + Len(s)) = s

ErrRollback == NewError("ErrRollback", "rollback error")
ErrStartSession == NewError("ErrStartSession", "session error")
ErrStartTransaction == NewError("ErrStartTransaction", "transaction error")
ErrCommitTransaction == NewError("ErrCommitTransaction", "commit error")
ErrAbortTransaction == NewError("ErrAbortTransaction", "abort error")


\* ---------------------------------------------------------------- contexts
\* context.Background(): carries no session
Background == [id |-> "background", sess |-> 0]

\* mongo.NewSessionContext(ctx, sess)
NewSessionContext(c, s) == [c EXCEPT !.sess = s]

\* mongo.SessionFromContext(ctx): 0 stands for nil
SessionFromContext(c) == c.sess

NoCtx == [id |-> "nil", sess |-> 0]

\* ------------------------------------------------------------------ MockTx
CommitedSuffix == " commited!"
RolledBackSuffix == " rolled back!"

\* strings a fn writes
Values == {<<"test state">>, <<"other state">>}

\* fn's local before it called Get
NoRef == [ref |-> "nil", via |-> "nil"]

\* the pointer MockTx.state
StateRef == [ref |-> "State", via |-> "MockTx.state"]

\* mutant: SetValue appends to the value instead of replacing it
State_SetValueAppended(v, str) == v \o str

\* State.SetValue, between Lock and Unlock
State_SetValue(v, str) == str

\* mutant: Commit appends its suffix twice
State_CommitTwice(v) == v \o <<CommitedSuffix, CommitedSuffix>>

\* State.Commit, between Lock and Unlock
State_Commit(v) == v \o <<CommitedSuffix>>

\* mutant: Rollback drops what was written
State_RollbackCleared(v) == << >>

\* State.Rollback, between Lock and Unlock
State_Rollback(v) == v \o <<RolledBackSuffix>>

\* MockTx.Ctx
MockTx_Ctx(c) == [ctx |-> c, err |-> Nil]

\* mutant: Get hands out a copy of the State as it is at the time of the call
MockTx_GetSnapshot(c) ==
    [ref |-> "State",
     via |-> IF value = << >> THEN "copy of the empty State" ELSE "copy of the written State"]

\* MockTx.Get
MockTx_Get(c) == StateRef

\* ----------------------------------------------------------------- MongoTx
DbName == "db"

\* MongoTx.Get: the database of the session's client, or of the client
MongoTx_Get(c) ==
    IF SessionFromContext(c) # 0
    THEN [ref |-> DbName, via |-> "session.Client"]
    ELSE [ref |-> DbName, via |-> "client"]

\* a session as client.StartSession() returns it; owner is the goroutine
\* whose Ctx started it, finals counts the CommitTransaction and
\* AbortTransaction calls made on it
NewSession(p) == [txn |-> "none", ended |-> FALSE, owner |-> p, finals |-> 0]

\* mutant: MongoTx keeps the first session it started and hands it out again
MongoTx_CtxShared(c, ss, p) ==
    IF ss = << >>
    THEN { [ctx |-> NewSessionContext(c, 1), err |-> Nil,
            sessions |-> Append(ss, [NewSession(p) EXCEPT !.txn = "started"])] }
    ELSE { [ctx |-> NewSessionContext(c, 1), err |-> Nil, sessions |-> ss] }

\* MongoTx.Ctx: every outcome of StartSession and StartTransaction, with the
\* sessions left behind
MongoTx_Ctx(c, ss, p) ==
    LET s == Len(ss) + 1 IN
    {   \* StartSession fails
        [ctx |-> NoCtx, err |-> ErrStartSession, sessions |-> ss],
        \* StartTransaction fails: the session is neither returned nor ended
        [ctx |-> NoCtx,
         err |-> Wrap(ErrStartTransaction, <<"error in starting transaction">>),
         sessions |-> Append(ss, NewSession(p))],
        \* both succeed
        [ctx |-> NewSessionContext(c, s), err |-> Nil,
         sessions |-> Append(ss, [NewSession(p) EXCEPT !.txn = "started"])] }

\* mutant: the session is ended only after a successful CommitTransaction
MongoTx_CommitLeaky(c, ss) ==
    LET s == SessionFromContext(c) IN
    IF s # 0
    THEN { [err |-> Nil,
            sessions |-> [ss EXCEPT ![s] = [@ EXCEPT !.txn = "committed", !.ended = TRUE,
                                             !.finals = @ + 1]]],
           [err |-> ErrCommitTransaction,
            sessions |-> [ss EXCEPT ![s] = [@ EXCEPT !.txn = "commit failed",
                                             !.finals = @ + 1]]] }
    ELSE { [err |-> Nil, sessions |-> ss] }

\* MongoTx.Commit: CommitTransaction succeeds or fails, the deferred
\* EndSession runs in both cases; without a session nothing happens
MongoTx_Commit(c, ss) ==
    LET s == SessionFromContext(c) IN
    IF s # 0
    THEN { [err |-> Nil,
            sessions |-> [ss EXCEPT ![s] = [@ EXCEPT !.txn = "committed", !.ended = TRUE,
                                             !.finals = @ + 1]]],
           [err |-> ErrCommitTransaction,
            sessions |-> [ss EXCEPT ![s] = [@ EXCEPT !.txn = "commit failed", !.ended = TRUE,
                                             !.finals = @ + 1]]] }
    ELSE { [err |-> Nil, sessions |-> ss] }

\* MongoTx.Rollback: AbortTransaction succeeds or fails, the deferred
\* EndSession runs in both cases; without a session nothing happens
MongoTx_Rollback(c, ss) ==
    LET s == SessionFromContext(c) IN
    IF s # 0
    THEN { [err |-> Nil,
            sessions |-> [ss EXCEPT ![s] = [@ EXCEPT !.txn = "aborted", !.ended = TRUE,
                                             !.finals = @ + 1]]],
           [err |-> ErrAbortTransaction,
            sessions |-> [ss EXCEPT ![s] = [@ EXCEPT !.txn = "abort failed", !.ended = TRUE,
                                             !.finals = @ + 1]]] }
    ELSE { [err |-> Nil, sessions |-> ss] }

\* ------------------------------------------------------------------ Runner
\* u.runner.Ctx(ctx): the outcomes the runner in use can produce, with the
\* sessions left behind
Runner_Ctx(c, p) ==
    IF runner = "MockTx"
    THEN { [ctx |-> MockTx_Ctx(c).ctx, err |-> MockTx_Ctx(c).err, sessions |-> sessions] }
    ELSE MongoTx_Ctx(c, sessions, p)

\* u.runner.Commit(ctx) of MongoTx (MockTx.Commit goes through the State mutex)
Runner_Commit(c) == MongoTx_Commit(c, sessions)

\* u.runner.Rollback(ctx) of MongoTx (MockTx.Rollback goes through the State mutex)
Runner_Rollback(c) == MongoTx_Rollback(c, sessions)

\* UoW.Get
UoW_Get(c) == IF runner = "MockTx" THEN MockTx_Get(c) ELSE MongoTx_Get(c)

\* what a caller's fn may return: nil, its own sentinel, or, when it works
\* on the driver's database, an error of the driver passed on
FnErrs ==
    IF runner = "MockTx" THEN {Nil, ErrRollback}
    ELSE {Nil, ErrRollback, ErrAbortTransaction}

\* entries of log
Call(op, c) == [op |-> op, ev |-> "call", ctx |-> c, err |-> Nil]
Ret(op, c, e) == [op |-> op, ev |-> "ret", ctx |-> c, err |-> e]

\* ----------------------------------------------------------------- UoW.Run
\* mutant: the acquisition error is passed on as it is
RunCtxFailedBare(e) == e

\* what Run returns when runner.Ctx failed
RunCtxFailed(e) == Wrap(e, <<"failed to start transaction">>)

\* mutant: the rollback error replaces the operation's error
RunRolledBackReplaced(e, rb) == IF rb # Nil THEN rb ELSE e

\* mutant: the operation's error is wrapped on every rollback
RunRolledBackWrapped(e, rb) ==
    Wrapf(e, "operation failed and rollback also failed: rollback error: ", rb)

\* what Run returns after fn failed with e and Rollback returned rb
RunRolledBack(e, rb) ==
    IF rb # Nil
    THEN Wrapf(e, "operation failed and rollback also failed: rollback error: ", rb)
    ELSE e

\* mutant: the UoW counts its Runs and refuses the Commit result of a later one
RunCommittedOnce(c) ==
    IF runs > 1 THEN Wrap(ErrCommitTransaction, <<"unit of work already used">>) ELSE c

\* mutant: a failed Commit is swallowed
RunCommittedSwallowed(c) == Nil

\* mutant: a failed Commit is wrapped
RunCommittedWrapped(c) == Wrap(c, <<"failed to commit transaction">>)

\* what Run returns after fn succeeded and Commit returned c
RunCommitted(c) == c

\* mutant: Run passes on its own parameter ctx
RunParentCtx(parent, scoped) == parent

\* the context Run hands to fn, Commit and Rollback
RunScopedCtx(parent, scoped) == scoped

\* which finalizer Run calls once fn returned e
RunFinalizer(e) == IF e # Nil THEN "Rollback" ELSE "Commit"

Init ==
    /\ runner \in {"MockTx", "MongoTx"}
    /\ value = << >>
    /\ mu = 0
    /\ sessions = << >>
    /\ pc = [p \in Procs |-> "idle"]
    /\ runs = 0
    /\ parentCtx = [p \in Procs |-> NoCtx]
    /\ fnCtx = [p \in Procs |-> NoCtx]
    /\ fnSets = [p \in Procs |-> 0]
    /\ wrote = [p \in Procs |-> FALSE]
    /\ tx = [p \in Procs |-> NoRef]
    /\ setArg = [p \in Procs |-> << >>]
    /\ uowCtx = [p \in Procs |-> NoCtx]
    /\ err = [p \in Procs |-> Nil]
    /\ rbErr = [p \in Procs |-> Nil]
    /\ ret = [p \in Procs |-> Nil]
    /\ log = [p \in Procs |-> << >>]
    /\ dataBefore = [p \in Procs |-> << >>]
    /\ written = [p \in Procs |-> << >>]
    /\ alone = [p \in Procs |-> FALSE]

\* goroutine p is inside a Run call
InProgress(p) == pc[p] \notin {"idle", "returned"}

\* Run returns r to its caller
Return(p, r) ==
    /\ ret' = [ret EXCEPT ![p] = r]
    /\ pc' = [pc EXCEPT ![p] = "returned"]
    /\ wrote' = [wrote EXCEPT ![p] = FALSE]
    /\ dataBefore' = [dataBefore EXCEPT ![p] = << >>]
    /\ written' = [written EXCEPT ![p] = << >>]
    /\ alone' = [alone EXCEPT ![p] = FALSE]

\* a caller invokes u.Run(ctx, fn); Run's locals start at their zero values
RunCall(p) ==
    /\ pc[p] \in {"idle", "returned"}
    /\ runs < MaxRuns
    /\ runs' = runs + 1
    /\ pc' = [pc EXCEPT ![p] = "Ctx"]
    /\ parentCtx' = [parentCtx EXCEPT ![p] = Background]
    /\ uowCtx' = [uowCtx EXCEPT ![p] = NoCtx]
    /\ err' = [err EXCEPT ![p] = Nil]
    /\ rbErr' = [rbErr EXCEPT ![p] = Nil]
    /\ ret' = [ret EXCEPT ![p] = Nil]
    /\ log' = [log EXCEPT ![p] = << >>]
    /\ wrote' = [wrote EXCEPT ![p] = FALSE]
    /\ dataBefore' = [dataBefore EXCEPT ![p] = value]
    /\ written' = [written EXCEPT ![p] = << >>]
    /\ alone' = [q \in Procs |-> IF q = p THEN \A o \in Procs \ {p} : ~InProgress(o)
                                ELSE FALSE]
    /\ UNCHANGED <<runner, value, mu, sessions, fnVars>>

\* uowCtx, err := u.runner.Ctx(ctx); on an error Run returns the wrapped
\* error, otherwise it invokes fn(uowCtx)
RunCtx(p) ==
    /\ pc[p] = "Ctx"
    /\ \E r \in Runner_Ctx(parentCtx[p], p) :
        /\ sessions' = r.sessions
        /\ IF r.err # Nil
           THEN /\ Return(p, RunCtxFailed(r.err))
                /\ log' = [log EXCEPT ![p] =
                       <<Call("Ctx", parentCtx[p]), Ret("Ctx", r.ctx, r.err)>>]
                /\ UNCHANGED <<uowCtx, err, fnCtx>>
           ELSE /\ uowCtx' = [uowCtx EXCEPT ![p] = r.ctx]
                /\ err' = [err EXCEPT ![p] = r.err]
                /\ fnCtx' = [fnCtx EXCEPT ![p] = RunScopedCtx(parentCtx[p], r.ctx)]
                /\ pc' = [pc EXCEPT ![p] = "fn"]
                /\ log' = [log EXCEPT ![p] =
                       <<Call("Ctx", parentCtx[p]), Ret("Ctx", r.ctx, r.err),
                         Call("fn", RunScopedCtx(parentCtx[p], r.ctx))>>]
                /\ UNCHANGED <<ret, runVars>>
    /\ UNCHANGED <<runner, value, mu, runs, parentCtx, fnSets, tx, setArg, rbErr>>

\* inside fn: tx := txs.Get(ctx)
FnGet(p) ==
    /\ pc[p] = "fn"
    /\ tx' = [tx EXCEPT ![p] = UoW_Get(fnCtx[p])]
    /\ UNCHANGED <<runner, value, mu, sessions, pc, runs, parentCtx, fnCtx, fnSets,
                   setArg, uowCtx, err, rbErr, ret, log, runVars>>

\* inside fn: tx.SetValue(str) is called on the State that Get returned
FnSetValue(p) ==
    /\ pc[p] = "fn"
    /\ tx[p].ref = "State"
    /\ fnSets[p] < MaxSets
    /\ fnSets' = [fnSets EXCEPT ![p] = @ + 1]
    /\ \E str \in Values : setArg' = [setArg EXCEPT ![p] = str]
    /\ pc' = [pc EXCEPT ![p] = "SetValue"]
    /\ UNCHANGED <<runner, value, mu, sessions, runs, parentCtx, fnCtx, tx,
                   uowCtx, err, rbErr, ret, log, runVars>>

\* mutant: the State methods go ahead without waiting for the mutex
StateLockUnguarded(p) ==
    /\ pc[p] \in {"SetValue", "Value", "Commit", "Rollback"}
    /\ mu' = p
    /\ pc' = [pc EXCEPT ![p] = IF pc[p] = "SetValue" THEN "SetValue locked"
                               ELSE IF pc[p] = "Value" THEN "Value locked"
                               ELSE IF pc[p] = "Commit" THEN "Commit locked"
                               ELSE "Rollback locked"]
    /\ UNCHANGED <<runner, value, sessions, runs, parentCtx, fnVars,
                   uowCtx, err, rbErr, ret, log, runVars>>

\* s.mu.Lock() of State.SetValue, State.Value, State.Commit and
\* State.Rollback: waits until the mutex is free
StateLock(p) ==
    /\ pc[p] \in {"SetValue", "Value", "Commit", "Rollback"}
    /\ mu = 0
    /\ mu' = p
    /\ pc' = [pc EXCEPT ![p] = IF pc[p] = "SetValue" THEN "SetValue locked"
                               ELSE IF pc[p] = "Value" THEN "Value locked"
                               ELSE IF pc[p] = "Commit" THEN "Commit locked"
                               ELSE "Rollback locked"]
    /\ UNCHANGED <<runner, value, sessions, runs, parentCtx, fnVars,
                   uowCtx, err, rbErr, ret, log, runVars>>

\* State.SetValue after Lock: s.value = str, then the deferred Unlock
StateSetValue(p) ==
    /\ pc[p] = "SetValue locked"
    /\ mu = p
    /\ value' = State_SetValue(value, setArg[p])
    /\ mu' = 0
    /\ wrote' = [wrote EXCEPT ![p] = TRUE]
    /\ written' = [written EXCEPT ![p] = setArg[p]]
    /\ setArg' = [setArg EXCEPT ![p] = << >>]
    /\ pc' = [pc EXCEPT ![p] = "fn"]
    /\ UNCHANGED <<runner, sessions, runs, parentCtx, fnCtx, fnSets, tx,
                   uowCtx, err, rbErr, ret, log, dataBefore, alone>>

\* inside fn: tx.Value() is called on the State that Get returned
FnValue(p) ==
    /\ pc[p] = "fn"
    /\ tx[p].ref = "State"
    /\ pc' = [pc EXCEPT ![p] = "Value"]
    /\ UNCHANGED <<runner, value, mu, sessions, runs, parentCtx, fnVars,
                   uowCtx, err, rbErr, ret, log, runVars>>

\* State.Value after Lock: return s.value, then the deferred Unlock; fn
\* keeps nothing of what it read
StateValue(p) ==
    /\ pc[p] = "Value locked"
    /\ mu = p
    /\ mu' = 0
    /\ pc' = [pc EXCEPT ![p] = "fn"]
    /\ UNCHANGED <<runner, value, sessions, runs, parentCtx, fnVars,
                   uowCtx, err, rbErr, ret, log, runVars>>

\* fn returns: err = fn(uowCtx); the locals of fn are gone
FnReturn(p) ==
    /\ pc[p] = "fn"
    /\ \E e \in FnErrs :
        /\ err' = [err EXCEPT ![p] = e]
        /\ log' = [log EXCEPT ![p] = Append(@, Ret("fn", fnCtx[p], e))]
    /\ pc' = [pc EXCEPT ![p] = "fn returned"]
    /\ fnCtx' = [fnCtx EXCEPT ![p] = NoCtx]
    /\ fnSets' = [fnSets EXCEPT ![p] = 0]
    /\ tx' = [tx EXCEPT ![p] = NoRef]
    /\ UNCHANGED <<runner, value, mu, sessions, runs, parentCtx, setArg,
                   uowCtx, rbErr, ret, runVars>>

\* mutant: Run returns the operation's error without calling Rollback
RunRollbackSkipped(p) ==
    /\ pc[p] = "fn returned"
    /\ RunFinalizer(err[p]) = "Rollback"
    /\ Return(p, err[p])
    /\ UNCHANGED <<runner, value, mu, sessions, runs, parentCtx, fnVars,
                   uowCtx, err, rbErr, log>>

\* mutant: a failed Rollback of MongoTx is tried once more
RunRollbackRetried(p) ==
    /\ pc[p] = "fn returned"
    /\ RunFinalizer(err[p]) = "Rollback"
    /\ LET c == RunScopedCtx(parentCtx[p], uowCtx[p]) IN
        IF runner = "MockTx"
        THEN /\ pc' = [pc EXCEPT ![p] = "Rollback"]
             /\ log' = [log EXCEPT ![p] = Append(@, Call("Rollback", c))]
             /\ UNCHANGED <<sessions, rbErr, ret, runVars>>
        ELSE \E r \in Runner_Rollback(c) :
             /\ sessions' = r.sessions
             /\ rbErr' = [rbErr EXCEPT ![p] = r.err]
             /\ log' = [log EXCEPT ![p] =
                    IF r.err # Nil
                    THEN @ \o <<Call("Rollback", c), Ret("Rollback", c, r.err),
                                Call("Rollback", c), Ret("Rollback", c, r.err)>>
                    ELSE @ \o <<Call("Rollback", c), Ret("Rollback", c, r.err)>>]
             /\ Return(p, RunRolledBack(err[p], r.err))
    /\ UNCHANGED <<runner, value, mu, runs, parentCtx, fnVars, uowCtx, err>>

\* err != nil: rbErr := u.runner.Rollback(uowCtx).  MongoTx.Rollback runs to
\* its return and Run returns; MockTx.Rollback enters State.Rollback
RunRollback(p) ==
    /\ pc[p] = "fn returned"
    /\ RunFinalizer(err[p]) = "Rollback"
    /\ LET c == RunScopedCtx(parentCtx[p], uowCtx[p]) IN
        IF runner = "MockTx"
        THEN /\ pc' = [pc EXCEPT ![p] = "Rollback"]
             /\ log' = [log EXCEPT ![p] = Append(@, Call("Rollback", c))]
             /\ UNCHANGED <<sessions, rbErr, ret, runVars>>
        ELSE \E r \in Runner_Rollback(c) :
             /\ sessions' = r.sessions
             /\ rbErr' = [rbErr EXCEPT ![p] = r.err]
             /\ log' = [log EXCEPT ![p] =
                    @ \o <<Call("Rollback", c), Ret("Rollback", c, r.err)>>]
             /\ Return(p, RunRolledBack(err[p], r.err))
    /\ UNCHANGED <<runner, value, mu, runs, parentCtx, fnVars, uowCtx, err>>

\* State.Rollback after Lock: s.value += " rolled back!", the deferred Unlock,
\* MockTx.Rollback returns nil and Run returns
StateRollback(p) ==
    /\ pc[p] = "Rollback locked"
    /\ mu = p
    /\ value' = State_Rollback(value)
    /\ mu' = 0
    /\ rbErr' = [rbErr EXCEPT ![p] = Nil]
    /\ log' = [log EXCEPT ![p] = Append(@, Ret("Rollback", @[Len(@)].ctx, Nil))]
    /\ Return(p, RunRolledBack(err[p], Nil))
    /\ UNCHANGED <<runner, sessions, runs, parentCtx, fnVars, uowCtx, err>>

\* mutant: before Commit the coordinator waits until no other Run is in
\* progress
RunCommitWaits(p) ==
    /\ pc[p] = "fn returned"
    /\ RunFinalizer(err[p]) = "Commit"
    /\ \A q \in Procs \ {p} : ~InProgress(q)
    /\ LET c == RunScopedCtx(parentCtx[p], uowCtx[p]) IN
        IF runner = "MockTx"
        THEN /\ pc' = [pc EXCEPT ![p] = "Commit"]
             /\ log' = [log EXCEPT ![p] = Append(@, Call("Commit", c))]
             /\ UNCHANGED <<sessions, ret, runVars>>
        ELSE \E r \in Runner_Commit(c) :
             /\ sessions' = r.sessions
             /\ log' = [log EXCEPT ![p] =
                    @ \o <<Call("Commit", c), Ret("Commit", c, r.err)>>]
             /\ Return(p, RunCommitted(r.err))
    /\ UNCHANGED <<runner, value, mu, runs, parentCtx, fnVars, uowCtx, err, rbErr>>

\* mutant: after a failed Commit of MongoTx, Run also calls Rollback
RunCommitThenRollback(p) ==
    /\ pc[p] = "fn returned"
    /\ RunFinalizer(err[p]) = "Commit"
    /\ LET c == RunScopedCtx(parentCtx[p], uowCtx[p]) IN
        IF runner = "MockTx"
        THEN /\ pc' = [pc EXCEPT ![p] = "Commit"]
             /\ log' = [log EXCEPT ![p] = Append(@, Call("Commit", c))]
             /\ UNCHANGED <<sessions, ret, runVars>>
        ELSE \E r \in Runner_Commit(c) :
             /\ sessions' = r.sessions
             /\ log' = [log EXCEPT ![p] =
                    IF r.err # Nil
                    THEN @ \o <<Call("Commit", c), Ret("Commit", c, r.err),
                                Call("Rollback", c), Ret("Rollback", c, Nil)>>
                    ELSE @ \o <<Call("Commit", c), Ret("Commit", c, r.err)>>]
             /\ Return(p, RunCommitted(r.err))
    /\ UNCHANGED <<runner, value, mu, runs, parentCtx, fnVars, uowCtx, err, rbErr>>

\* err == nil: return u.runner.Commit(uowCtx).  MongoTx.Commit runs to its
\* return and Run returns; MockTx.Commit enters State.Commit
RunCommit(p) ==
    /\ pc[p] = "fn returned"
    /\ RunFinalizer(err[p]) = "Commit"
    /\ LET c == RunScopedCtx(parentCtx[p], uowCtx[p]) IN
        IF runner = "MockTx"
        THEN /\ pc' = [pc EXCEPT ![p] = "Commit"]
             /\ log' = [log EXCEPT ![p] = Append(@, Call("Commit", c))]
             /\ UNCHANGED <<sessions, ret, runVars>>
        ELSE \E r \in Runner_Commit(c) :
             /\ sessions' = r.sessions
             /\ log' = [log EXCEPT ![p] =
                    @ \o <<Call("Commit", c), Ret("Commit", c, r.err)>>]
             /\ Return(p, RunCommitted(r.err))
    /\ UNCHANGED <<runner, value, mu, runs, parentCtx, fnVars, uowCtx, err, rbErr>>

\* mutant: Commit publishes what this Run's own fn wrote, as an isolated
\* transaction would
StateCommitOwnWrite(p) ==
    /\ pc[p] = "Commit locked"
    /\ mu = p
    /\ value' = State_Commit(IF wrote[p] THEN written[p] ELSE dataBefore[p])
    /\ mu' = 0
    /\ log' = [log EXCEPT ![p] = Append(@, Ret("Commit", @[Len(@)].ctx, Nil))]
    /\ Return(p, RunCommitted(Nil))
    /\ UNCHANGED <<runner, sessions, runs, parentCtx, fnVars, uowCtx, err, rbErr>>

\* State.Commit after Lock: s.value += " commited!", the deferred Unlock,
\* MockTx.Commit returns nil and Run returns
StateCommit(p) ==
    /\ pc[p] = "Commit locked"
    /\ mu = p
    /\ value' = State_Commit(value)
    /\ mu' = 0
    /\ log' = [log EXCEPT ![p] = Append(@, Ret("Commit", @[Len(@)].ctx, Nil))]
    /\ Return(p, RunCommitted(Nil))
    /\ UNCHANGED <<runner, sessions, runs, parentCtx, fnVars, uowCtx, err, rbErr>>

Next ==
    \E p \in Procs :
        \/ RunCall(p)
        \/ RunCtx(p)
        \/ FnGet(p)
        \/ FnSetValue(p)
        \/ StateLock(p)
        \/ StateSetValue(p)
        \/ FnValue(p)
        \/ StateValue(p)
        \/ FnReturn(p)
        \/ RunRollback(p)
        \/ StateRollback(p)
        \/ RunCommit(p)
        \/ StateCommit(p)

Spec == Init /\ [][Next]_vars

\* the steps a goroutine takes on its own once Run was called: the Runner
\* calls return, fn returns, and a State method that holds the mutex runs to
\* its deferred Unlock
Proceed(p) ==
    \/ RunCtx(p)
    \/ FnReturn(p)
    \/ RunRollback(p)
    \/ RunCommit(p)
    \/ StateSetValue(p)
    \/ StateValue(p)
    \/ StateRollback(p)
    \/ StateCommit(p)

\* Spec with the scheduling of the Go runtime: a goroutine that can proceed
\* does so, and a goroutine waiting in Lock gets the mutex if it is free again
\* and again (sync.Mutex hands over to a starving waiter)
FairSpec ==
    /\ Spec
    /\ \A p \in Procs : WF_vars(Proceed(p)) /\ SF_vars(StateLock(p))

\* ------------------------------------------------------------- observations
\* Run has returned to its caller
Returned(p) == pc[p] = "returned"

\* the calls and returns of a log, without their arguments
Events(l) == [i \in 1..Len(l) |-> <<l[i].op, l[i].ev>>]

\* how often op was called / has returned in a log
Calls(l, op) == Cardinality({i \in 1..Len(l) : l[i].op = op /\ l[i].ev = "call"})
Returns(l, op) == Cardinality({i \in 1..Len(l) : l[i].op = op /\ l[i].ev = "ret"})

\* the errors op returned in a log
Results(l, op) == {l[i].err : i \in {j \in 1..Len(l) : l[j].op = op /\ l[j].ev = "ret"}}

\* the contexts op was called with in a log
Args(l, op) == {l[i].ctx : i \in {j \in 1..Len(l) : l[j].op = op /\ l[j].ev = "call"}}

\* the scoped contexts Ctx handed out in a log
Scoped(l) == {i \in 1..Len(l) : l[i].op = "Ctx" /\ l[i].ev = "ret" /\ l[i].err = Nil}

\* the contexts Ctx returned with a nil error in a log
ScopedCtxs(l) == {l[i].ctx : i \in Scoped(l)}

IsPrefix(s, t) == Len(s) <= Len(t) /\ SubSeq(t, 1, Len(s)) = s

CtxSucceeded(p) == Results(log[p], "Ctx") = {Nil}
CtxFailed(p) == \E e \in Results(log[p], "Ctx") : e # Nil
FnSucceeded(p) == Results(log[p], "fn") = {Nil}
FnFailed(p) == \E e \in Results(log[p], "fn") : e # Nil
CommitSucceeded(p) == Results(log[p], "Commit") = {Nil}
CommitFailed(p) == \E e \in Results(log[p], "Commit") : e # Nil
RollbackSucceeded(p) == Results(log[p], "Rollback") = {Nil}
RollbackFailed(p) == \E e \in Results(log[p], "Rollback") : e # Nil

CommitPath ==
    << <<"Ctx", "call">>, <<"Ctx", "ret">>, <<"fn", "call">>, <<"fn", "ret">>,
       <<"Commit", "call">>, <<"Commit", "ret">> >>

RollbackPath ==
    << <<"Ctx", "call">>, <<"Ctx", "ret">>, <<"fn", "call">>, <<"fn", "ret">>,
       <<"Rollback", "call">>, <<"Rollback", "ret">> >>

\* ------------------------------------------------------------------- claims
\* C1: within one Run in which Ctx succeeds, the calls are Ctx (called once,
\* returned), then fn (called once, returned), then exactly one of Commit and
\* Rollback, called once; at every moment the calls made so far are a prefix
\* of one of these two sequences, so no finalizer precedes fn's return and no
\* call is repeated, whatever fn, Commit and Rollback return.
C1_CallOrder ==
    \A p \in Procs :
        /\ \/ IsPrefix(Events(log[p]), CommitPath)
           \/ IsPrefix(Events(log[p]), RollbackPath)
        /\ (Returned(p) /\ CtxSucceeded(p)) =>
               Events(log[p]) \in {CommitPath, RollbackPath}

\* a Run whose Rollback failed and a Run whose Commit succeeded have both returned
C1_Witness ==
    \E p, q \in Procs :
        /\ Returned(p) /\ RollbackFailed(p) /\ Events(log[p]) = RollbackPath
        /\ Returned(q) /\ CommitSucceeded(q) /\ Events(log[q]) = CommitPath

\* C2 as claimed: every Run that returned obtained exactly one scoped context
\* and called exactly one of Commit and Rollback, whatever Ctx returned.
C2_EveryRunFinalizes ==
    \A p \in Procs :
        Returned(p) =>
            /\ Cardinality(Scoped(log[p])) = 1
            /\ Calls(log[p], "Commit") + Calls(log[p], "Rollback") = 1

\* C2, amended: every Run that returned called Ctx exactly once; if Ctx
\* succeeded the Run obtained exactly one scoped context and called exactly
\* one of Commit and Rollback, once; if Ctx failed it obtained no scoped
\* context and called neither.
C2_FinalizesIffAcquired ==
    \A p \in Procs :
        Returned(p) =>
            /\ Calls(log[p], "Ctx") = 1
            /\ Returns(log[p], "Ctx") = 1
            /\ CtxSucceeded(p) =>
                   /\ Cardinality(Scoped(log[p])) = 1
                   /\ Calls(log[p], "Commit") + Calls(log[p], "Rollback") = 1
                   /\ Returns(log[p], "Commit") + Returns(log[p], "Rollback") = 1
            /\ CtxFailed(p) =>
                   /\ Scoped(log[p]) = {}
                   /\ Calls(log[p], "Commit") + Calls(log[p], "Rollback") = 0

\* a Run whose Ctx failed and a Run that rolled back have both returned
C2_Witness ==
    \E p, q \in Procs :
        /\ Returned(p) /\ CtxFailed(p)
        /\ Returned(q) /\ CtxSucceeded(q) /\ Calls(log[q], "Rollback") = 1

\* C3: Run returns nil only when Commit was called and succeeded: a Run that
\* returned nil had Ctx succeed, fn return nil and Commit return nil, and a
\* Run in which Ctx, fn or Commit failed returned a non-nil error.
C3_NilOnlyAfterCommit ==
    \A p \in Procs :
        Returned(p) =>
            /\ ret[p] = Nil =>
                   /\ CtxSucceeded(p)
                   /\ FnSucceeded(p)
                   /\ Calls(log[p], "Commit") = 1
                   /\ CommitSucceeded(p)
            /\ (CtxFailed(p) \/ FnFailed(p) \/ CommitFailed(p)) => ret[p] # Nil

\* a Run returned nil after its Commit, and a Run whose Commit failed returned
C3_Witness ==
    \E p, q \in Procs :
        /\ Returned(p) /\ ret[p] = Nil /\ CommitSucceeded(p)
        /\ Returned(q) /\ CommitFailed(q) /\ ret[q] # Nil

\* C4 as claimed: every Run whose fn returned nil returned nil, called Commit
\* exactly once, with the context Ctx returned, and never called Rollback.
C4_SuccessReturnsNil ==
    \A p \in Procs :
        (Returned(p) /\ FnSucceeded(p)) =>
            /\ ret[p] = Nil
            /\ Calls(log[p], "Commit") = 1
            /\ Args(log[p], "Commit") = ScopedCtxs(log[p])
            /\ Calls(log[p], "Rollback") = 0

\* C4, amended: every Run whose fn returned nil returned what its Commit
\* returned (nil exactly when Commit succeeded), called Commit exactly once,
\* with the context Ctx returned (for MongoTx the session context, which is
\* not the parent context), and never called Rollback.
C4_SuccessReturnsCommitResult ==
    \A p \in Procs :
        (Returned(p) /\ FnSucceeded(p)) =>
            /\ Results(log[p], "Commit") = {ret[p]}
            /\ Calls(log[p], "Commit") = 1
            /\ Args(log[p], "Commit") = ScopedCtxs(log[p])
            /\ runner = "MongoTx" => parentCtx[p] \notin Args(log[p], "Commit")
            /\ Calls(log[p], "Rollback") = 0

\* a Run of MongoTx whose fn returned nil and whose Commit failed has returned
C4_Witness ==
    \E p \in Procs :
        /\ Returned(p) /\ FnSucceeded(p) /\ CommitFailed(p)
        /\ ret[p] = ErrCommitTransaction
        /\ \E c \in Args(log[p], "Commit") : SessionFromContext(c) # 0

\* C5: every Run whose fn returned an error e and whose Rollback succeeded
\* returned exactly e (so errors.Is(result, e) holds), called Rollback exactly
\* once, with the context Ctx returned, and never called Commit.
C5_RolledBackReturnsOpError ==
    \A p \in Procs :
        (Returned(p) /\ FnFailed(p) /\ RollbackSucceeded(p)) =>
            /\ \A e \in Results(log[p], "fn") : ret[p] = e /\ Is(ret[p], e)
            /\ Calls(log[p], "Rollback") = 1
            /\ Args(log[p], "Rollback") = ScopedCtxs(log[p])
            /\ Calls(log[p], "Commit") = 0

\* Runs whose fn failed and whose Rollback succeeded have returned, on MockTx
\* or on MongoTx, one of them with the sentinel ErrRollback
C5_Witness ==
    \E p \in Procs :
        /\ Returned(p) /\ RollbackSucceeded(p)
        /\ Results(log[p], "fn") = {ErrRollback}
        /\ ret[p] = ErrRollback

\* C6: every Run whose fn returned an error e and whose Rollback failed with r
\* returned a combined error that is neither e nor r, whose chain contains e
\* and whose message contains the message of r; Commit was never called and
\* Rollback was called once.
C6_RollbackFailedCombines ==
    \A p \in Procs :
        (Returned(p) /\ FnFailed(p) /\ RollbackFailed(p)) =>
            \A e \in Results(log[p], "fn"), r \in Results(log[p], "Rollback") :
                /\ ret[p] # e
                /\ ret[p] # r
                /\ Is(ret[p], e)
                /\ Contains(ErrorString(ret[p]), ErrorString(r))
                /\ Contains(ErrorString(ret[p]), ErrorString(e))
                /\ Calls(log[p], "Commit") = 0
                /\ Calls(log[p], "Rollback") = 1

\* a Run whose fn failed with the sentinel and whose Rollback failed has returned
C6_Witness ==
    \E p \in Procs :
        /\ Returned(p) /\ RollbackFailed(p)
        /\ Results(log[p], "fn") = {ErrRollback}
        /\ Results(log[p], "Rollback") = {ErrAbortTransaction}
        /\ Len(ret[p]) = 2

\* C7: in a Run whose Ctx failed with a, fn was never invoked (so nothing of
\* it took effect), neither Commit nor Rollback was called, and Run returned a
\* non-nil error that wraps a under the message "failed to start transaction".
C7_AcquisitionFailure ==
    \A p \in Procs :
        (Returned(p) /\ CtxFailed(p)) =>
            \A a \in Results(log[p], "Ctx") :
                /\ Calls(log[p], "fn") = 0
                /\ Calls(log[p], "Commit") = 0
                /\ Calls(log[p], "Rollback") = 0
                /\ ret[p] # Nil
                /\ ret[p] # a
                /\ Is(ret[p], a)
                /\ ErrorString(ret[p]) =
                       <<"failed to start transaction", ": ">> \o ErrorString(a)

\* Runs whose StartSession failed and whose StartTransaction failed have returned
C7_Witness ==
    \E p, q \in Procs :
        /\ Returned(p) /\ Results(log[p], "Ctx") = {ErrStartSession}
        /\ Returned(q) /\ CtxFailed(q) /\ Results(log[q], "Ctx") # {ErrStartSession}

\* C8: every Run whose fn returned nil and whose Commit failed with c returned
\* c itself, not wrapped and not combined, and called no Rollback.
C8_CommitErrorAsIs ==
    \A p \in Procs :
        (Returned(p) /\ FnSucceeded(p) /\ CommitFailed(p)) =>
            /\ Results(log[p], "Commit") = {ret[p]}
            /\ Calls(log[p], "Commit") = 1
            /\ Calls(log[p], "Rollback") = 0

\* a Run whose Commit failed has returned the driver's error
C8_Witness ==
    \E p \in Procs :
        /\ Returned(p) /\ FnSucceeded(p)
        /\ Results(log[p], "Commit") = {ErrCommitTransaction}
        /\ Len(ret[p]) = 1

\* the states of one Run call
ContextAcquired(p) == CtxSucceeded(p)
Committed(p) == Returned(p) /\ CommitSucceeded(p)
RolledBack(p) == Returned(p) /\ RollbackSucceeded(p)
RollbackFailedState(p) == Returned(p) /\ RollbackFailed(p)
AcquisitionFailed(p) == Returned(p) /\ CtxFailed(p)
CommitFailedState(p) == Returned(p) /\ CommitFailed(p)

\* how many of the given states hold
Holding(S) == Cardinality({i \in 1..Len(S) : S[i]})

\* C9 as claimed: every Run that returned is in exactly one of Committed,
\* RolledBack, RollbackFailed, AcquisitionFailed, and in one of the first
\* three if it entered ContextAcquired.
C9_FourTerminalStates ==
    \A p \in Procs :
        Returned(p) =>
            /\ Holding(<<Committed(p), RolledBack(p), RollbackFailedState(p),
                         AcquisitionFailed(p)>>) = 1
            /\ ContextAcquired(p) =>
                   Committed(p) \/ RolledBack(p) \/ RollbackFailedState(p)

\* C9, amended: every Run that returned is in exactly one of Committed,
\* CommitFailed, RolledBack, RollbackFailed, AcquisitionFailed; it is in
\* AcquisitionFailed exactly if it never entered ContextAcquired, and a Run
\* that has not returned is in none of the terminal states.
C9_FiveTerminalStates ==
    \A p \in Procs :
        /\ Holding(<<Committed(p), CommitFailedState(p), RolledBack(p),
                     RollbackFailedState(p), AcquisitionFailed(p)>>)
               = IF Returned(p) THEN 1 ELSE 0
        /\ Returned(p) => (AcquisitionFailed(p) <=> ~ContextAcquired(p))

\* a Run has returned in CommitFailed
C9_Witness ==
    \E p \in Procs : CommitFailedState(p) /\ ContextAcquired(p) /\ ret[p] # Nil

C11_CommitScenario ==
    [][\A p \in Procs :
          (pc[p] = "Commit locked" /\ pc'[p] = "returned" /\ alone[p] /\ wrote[p]) =>
              /\ FnSucceeded(p)
              /\ ret'[p] = Nil
              /\ Calls(log'[p], "Rollback") = 0
              /\ value' = written[p] \o <<CommitedSuffix>>]_vars

\* the only Run made on a MockTx set "test state", returned nil and left
\* "test state commited!"
C11_Witness ==
    \E p \in Procs :
        /\ runner = "MockTx" /\ runs = 1 /\ Committed(p) /\ ret[p] = Nil
        /\ value = <<"test state", CommitedSuffix>>

\* C12: rollback scenario on MockTx: when a Run that no other Run overlaps
\* has an fn that sets the State value to v and returns the error e, Run
\* returns a non-nil error whose chain holds e, Commit is not called, and the
\* value as Run returns is v followed by one " rolled back!" and nothing else.
C12_RollbackScenario ==
    [][\A p \in Procs :
          (pc[p] = "Rollback locked" /\ pc'[p] = "returned" /\ alone[p] /\ wrote[p]) =>
              /\ Results(log[p], "fn") = {err[p]}
              /\ ret'[p] # Nil
              /\ Is(ret'[p], err[p])
              /\ Calls(log'[p], "Commit") = 0
              /\ value' = written[p] \o <<RolledBackSuffix>>]_vars

\* a goroutine's second Run on a MockTx, the other goroutine never having
\* run, set "other state", returned ErrRollback and left
\* "other state rolled back!"
C12_Witness ==
    \E p \in Procs :
        /\ runner = "MockTx" /\ runs = 2 /\ RolledBack(p) /\ ret[p] = ErrRollback
        /\ \A q \in Procs \ {p} : pc[q] = "idle"
        /\ value = <<"other state", RolledBackSuffix>>

\* goroutine p is inside a State method, after Lock and before Unlock
Locked(p) ==
    pc[p] \in {"SetValue locked", "Value locked", "Commit locked", "Rollback locked"}

\* goroutine p is inside Lock of a State method
Waiting(p) == pc[p] \in {"SetValue", "Value", "Commit", "Rollback"}

\* C13: for concurrent Runs sharing one UoW over one MockTx, in every
\* interleaving each Run returns Committed when its own fn returned nil (its
\* Commit called once, its Rollback never) and RolledBack when its own fn
\* returned an error (its Rollback called once, its Commit never); a
\* goroutine is between Lock and Unlock exactly when it holds the mutex, so
\* at most one is; the value is read and written only by the holder, which
\* then unlocks; and every goroutine waiting in Lock gets the mutex.
C13_ConcurrentRuns ==
    /\ [](runner = "MockTx" =>
            /\ \A p \in Procs :
                  /\ Returned(p) => FnSucceeded(p) \/ FnFailed(p)
                  /\ (Returned(p) /\ FnSucceeded(p)) =>
                         /\ Committed(p)
                         /\ Calls(log[p], "Commit") = 1
                         /\ Calls(log[p], "Rollback") = 0
                  /\ (Returned(p) /\ FnFailed(p)) =>
                         /\ RolledBack(p)
                         /\ Calls(log[p], "Rollback") = 1
                         /\ Calls(log[p], "Commit") = 0
                  /\ Locked(p) <=> mu = p
            /\ Cardinality({p \in Procs : Locked(p)}) <= 1)
    /\ [][value' # value =>
            mu \in Procs /\ Locked(mu) /\ mu' = 0 /\ \A p \in Procs : ~Locked(p)']_vars
    /\ \A p \in Procs : (runner = "MockTx" /\ Waiting(p)) ~> Locked(p)

\* two Runs on a MockTx overlap: one goroutine, whose fn returned nil, holds
\* the mutex in Commit while the other, whose fn failed, waits in Rollback's
\* Lock
C13_Witness ==
    \E p, q \in Procs :
        /\ runner = "MockTx" /\ p # q
        /\ mu = p /\ pc[p] = "Commit locked" /\ FnSucceeded(p)
        /\ pc[q] = "Rollback" /\ FnFailed(q)

\* the returns of Commit and Rollback in a log that carried a session
Finalized(l) ==
    {i \in 1..Len(l) : /\ l[i].op \in {"Commit", "Rollback"} /\ l[i].ev = "ret"
                        /\ SessionFromContext(l[i].ctx) # 0}

\* C14: whenever MongoTx.Commit or MongoTx.Rollback, called with a context
\* that carries a session, has returned, that session is ended, also when
\* CommitTransaction or AbortTransaction failed, and what the call returned
\* is what CommitTransaction / AbortTransaction returned: nil when the
\* transaction was committed / aborted, the driver's error when it was not.
C14_SessionEndedOnBothPaths ==
    runner = "MongoTx" =>
        \A p \in Procs : \A i \in Finalized(log[p]) :
            LET s == sessions[SessionFromContext(log[p][i].ctx)]
                e == log[p][i].err
            IN  /\ s.ended
                /\ log[p][i].op = "Commit" =>
                       \/ e = Nil /\ s.txn = "committed"
                       \/ e = ErrCommitTransaction /\ s.txn = "commit failed"
                /\ log[p][i].op = "Rollback" =>
                       \/ e = Nil /\ s.txn = "aborted"
                       \/ e = ErrAbortTransaction /\ s.txn = "abort failed"

\* on MongoTx a Commit has returned the driver's commit error and a Rollback
\* the driver's abort error, and the sessions of both are ended
C14_Witness ==
    \E p, q \in Procs :
        /\ runner = "MongoTx"
        /\ \E i \in Finalized(log[p]) :
              /\ log[p][i].op = "Commit" /\ log[p][i].err = ErrCommitTransaction
              /\ sessions[SessionFromContext(log[p][i].ctx)].ended
        /\ \E i \in Finalized(log[q]) :
              /\ log[q][i].op = "Rollback" /\ log[q][i].err = ErrAbortTransaction
              /\ sessions[SessionFromContext(log[q][i].ctx)].ended

\* goroutine p is inside fn
InFn(p) == pc[p] \in {"fn", "SetValue", "SetValue locked", "Value", "Value locked"}

\* C15: within one unit of work every Get with the scoped context returns
\* the same data reference: once a Get of an fn has returned a reference,
\* every later Get of that fn returns that reference again, whatever was
\* written to the data in between by this or another goroutine; on MockTx the
\* reference is the one State of the MockTx, on MongoTx the database of the
\* session's client.
C15_GetIdempotent ==
    /\ [](\A p \in Procs :
            /\ tx[p] # NoRef => InFn(p) /\ tx[p] = UoW_Get(fnCtx[p])
            /\ InFn(p) =>
                   UoW_Get(fnCtx[p]) = IF runner = "MockTx" THEN StateRef
                                       ELSE [ref |-> DbName, via |-> "session.Client"])
    /\ [][\A p \in Procs :
             (InFn(p) /\ InFn(p)' /\ tx[p] # NoRef) => tx'[p] = tx[p]]_vars

\* an fn on MockTx got the State, wrote "test state" through it, and still
\* holds the same State while the value carries that write and the commit
\* suffix of another Run
C15_Witness ==
    \E p \in Procs :
        /\ runner = "MockTx" /\ pc[p] = "fn" /\ tx[p] = StateRef
        /\ wrote[p] /\ written[p] = <<"test state">>
        /\ value = <<"test state", CommitedSuffix>>

\* C16 as claimed: on MongoTx every session that Ctx started is released by
\* the time its Run has returned: a session that is not ended belongs to a
\* Run still in progress, also when StartSession succeeded and
\* StartTransaction failed.
C16_EverySessionReleased ==
    runner = "MongoTx" =>
        \A s \in DOMAIN sessions :
            ~sessions[s].ended =>
                \E p \in Procs :
                    /\ InProgress(p) /\ sessions[s].owner = p
                    /\ SessionFromContext(uowCtx[p]) = s

\* goroutine q is in a Run whose fn wrote v, neither committed nor rolled
\* back yet, and v is the State value
InProgressWrite(q, v) == InProgress(q) /\ wrote[q] /\ written[q] = v /\ value = v

\* C17: MockTx gives no isolation.  Whenever a Run finalizes while the State
\* value is the write of another Run that is still in progress, its Commit /
\* Rollback works on that write: the value becomes the other Run's string
\* followed by this Run's suffix, whatever this Run's own fn wrote, and the
\* other Run, still in progress, then finalizes on top of it.  Such an
\* interleaving is reachable with two concurrent Runs (C17_Witness).
C17_NoIsolation ==
    [][\A p, q \in Procs : \A v \in Values :
          (/\ p # q /\ InProgressWrite(q, v)
           /\ pc[p] \in {"Commit locked", "Rollback locked"} /\ pc'[p] = "returned") =>
              /\ pc[p] = "Commit locked" =>
                     value' = v \o <<CommitedSuffix>> /\ ret'[p] = Nil
              /\ pc[p] = "Rollback locked" =>
                     value' = v \o <<RolledBackSuffix>> /\ ret'[p] = err[p]
              /\ InProgress(q)' /\ written'[q] = v]_vars

\* two concurrent Runs on a MockTx: one fn wrote "test state", then the other
\* fn wrote "other state" and failed; the first Run is inside Commit and
\* reads the second Run's write, which is not rolled back yet; the value will
\* be "other state commited! rolled back!"
C17_Witness ==
    \E p, q \in Procs :
        /\ runner = "MockTx" /\ p # q /\ runs = 2
        /\ pc[p] = "Commit locked" /\ wrote[p] /\ written[p] = <<"test state">>
        /\ pc[q] = "fn returned" /\ FnFailed(q)
        /\ InProgressWrite(q, <<"other state">>)

\* the contexts Run passed to fn, Commit and Rollback in a log
Passed(l) == Args(l, "fn") \cup Args(l, "Commit") \cup Args(l, "Rollback")

\* C18: in concurrent Runs over one MongoTx every context a Run passes to
\* fn, Commit or Rollback is the one its own Ctx returned, and the session in
\* it was started by that Ctx call: no two Runs hold the same session, a
\* session is untouched (transaction started, not ended) until its own Run
\* finalizes it, and CommitTransaction / AbortTransaction is called at most
\* once on any session.
C18_OwnSessionOnly ==
    runner = "MongoTx" =>
        /\ \A p \in Procs : \A c \in Passed(log[p]) :
              /\ c \in ScopedCtxs(log[p])
              /\ SessionFromContext(c) \in DOMAIN sessions
              /\ sessions[SessionFromContext(c)].owner = p
        /\ \A p, q \in Procs :
              p # q => ScopedCtxs(log[p]) \cap ScopedCtxs(log[q]) = {}
        /\ \A p \in Procs :
              (InProgress(p) /\ SessionFromContext(uowCtx[p]) # 0) =>
                  LET s == sessions[SessionFromContext(uowCtx[p])]
                  IN  s.txn = "started" /\ ~s.ended /\ s.finals = 0
        /\ \A s \in DOMAIN sessions :
              /\ sessions[s].finals <= 1
              /\ sessions[s].ended <=> sessions[s].finals = 1

\* two Runs on a MongoTx overlap with a session each: one has committed and
\* ended its own session, the other's session is still open with its
\* transaction started
C18_Witness ==
    \E p, q \in Procs :
        /\ runner = "MongoTx" /\ p # q /\ runs = 2
        /\ Committed(p) /\ pc[q] = "fn returned" /\ ~alone[q]
        /\ \E c \in Args(log[p], "Commit") :
              /\ SessionFromContext(c) # SessionFromContext(uowCtx[q])
              /\ sessions[SessionFromContext(c)].txn = "committed"
              /\ sessions[SessionFromContext(c)].finals = 1
        /\ sessions[SessionFromContext(uowCtx[q])].txn = "started"
        /\ sessions[SessionFromContext(uowCtx[q])].finals = 0

\* what the calls of a log returned, in order, without the contexts
Outcomes(l) ==
    LET rets == SelectSeq(l, LAMBDA x : x.ev = "ret")
    IN  [i \in 1..Len(rets) |-> <<rets[i].op, rets[i].err>>]

\* C19: the coordinator is a stateless pass-through.  A Get made by fn
\* changes nothing but fn's own local: no backend data, no session, and no
\* Ctx, Commit or Rollback call is made by it; the UoW's runner is never
\* replaced; and any two Runs that have returned, whichever came first and
\* whatever happened before them, made the same sequence of calls and
\* returned the same value if their own Ctx, fn, Commit and Rollback returned
\* the same.
C19_StatelessPassThrough ==
    /\ [][/\ runner' = runner
          /\ \A p \in Procs :
                (pc[p] = "fn" /\ pc'[p] = "fn" /\ tx'[p] # tx[p]) =>
                    /\ tx'[p] = UoW_Get(fnCtx[p])
                    /\ UNCHANGED <<value, mu, sessions, log, uowCtx, err, ret>>]_vars
    /\ [](\A p, q \in Procs :
            (Returned(p) /\ Returned(q) /\ Outcomes(log[p]) = Outcomes(log[q])) =>
                /\ ret[p] = ret[q]
                /\ Events(log[p]) = Events(log[q]))

\* on a MongoTx one Run failed in StartTransaction, and a Run whose Ctx came
\* after it, with the second session, committed and returned nil
C19_Witness ==
    \E p, q \in Procs :
        /\ runner = "MongoTx" /\ p # q
        /\ AcquisitionFailed(p) /\ Is(ret[p], ErrStartTransaction)
        /\ Committed(q) /\ ret[q] = Nil
        /\ \E c \in Args(log[q], "Commit") : SessionFromContext(c) = 2

\* the Runner calls (Ctx, Commit, Rollback) made in a log
RunnerCalls(l) == Calls(l, "Ctx") + Calls(l, "Commit") + Calls(l, "Rollback")

\* C20: provided Ctx, fn, Commit and Rollback return (no goroutine stays
\* inside fn for ever; the Runner calls return under the scheduling of
\* FairSpec), every Run that was called returns to its caller.  On the way
\* it makes at most three Runner calls and one fn call, and it is never held
\* up by the coordinator: a Run
\* in progress that is not waiting inside a State method for the mutex can
\* always take its next step.
C20_RunTerminates ==
    /\ [](\A p \in Procs :
            /\ RunnerCalls(log[p]) <= 3
            /\ Calls(log[p], "fn") <= 1
            /\ (InProgress(p) /\ ~Waiting(p)) => ENABLED Proceed(p))
    /\ \A p \in Procs : []<>(~InFn(p)) => (InProgress(p) ~> Returned(p))

\* both goroutines have returned from their Runs: one after Ctx, fn and
\* Commit, the other after Ctx, fn and Rollback, two Runner calls each
C20_Witness ==
    \E p, q \in Procs :
        /\ p # q /\ runs = 2 /\ Returned(p) /\ Returned(q)
        /\ Events(log[p]) = CommitPath /\ Events(log[q]) = RollbackPath
        /\ RunnerCalls(log[p]) = 2 /\ RunnerCalls(log[q]) = 2

=============================================================================
